---- MODULE Spec2Model ----
(***************************************************************************)
(* Streaming response pipeline of the RAG chat client.                     *)
(*                                                                         *)
(*   - the Chat component (stream session controller and typewriter):      *)
(*     refs, effects, handleSubmit and its four stream callbacks, the      *)
(*     interval tick;                                                      *)
(*   - streamChat (api/client.ts): the fetch / read loop that turns the    *)
(*     response body into callback invocations, modelled twice: at the     *)
(*     level of callback invocations (specification Spec, where it drives  *)
(*     the controller) and at the level of characters and chunks           *)
(*     (specification SpecDecoder, the SSE frame decoder);                 *)
(*   - the FileUpload component: handleUpload, its promise and its reset   *)
(*     timer (specification SpecUpload);                                   *)
(*   - the App component: the list of chat sessions and the active         *)
(*     session id (specification SpecApp).                                 *)
(*                                                                         *)
(* Text is a sequence of one-character strings.  The non-ASCII literals of *)
(* the source are written as ASCII atoms (see ERROR_PREFIX).               *)
(***************************************************************************)
EXTENDS Integers, Sequences, FiniteSets, TLC

(***************************************************************************)
(* Bounds of the model.                                                    *)
(***************************************************************************)
\* number of submissions (AbortControllers / streamChat calls) explored
MaxStreams == 2
\* number of frames the response streams deliver, all streams together
MaxFrames == 3

(***************************************************************************)
(* Program constants.                                                      *)
(***************************************************************************)
CHARS_PER_TICK == 1

Streams == 1..MaxStreams
\* the chat sessions the user switches between (ChatSession.id)
Chats == {1, 2}

\* `Ошибка: ` (part_000:158), the fixed prefix of the error notice, as one atom
ERROR_PREFIX == "Oshibka: "
\* `Ошибка сервера: ${response.status} — ${err}` (client.ts:43)
ERR_SERVER == "Oshibka servera: 500"
\* "Не удалось получить ReadableStream" (client.ts:49)
ERR_NO_READER == "Ne udalos poluchit ReadableStream"
\* `Ошибка соединения: ${error}` (client.ts:95)
ERR_CONNECTION == "Oshibka soedineniya: TypeError"
\* content of an error frame sent by the server
ERR_FRAME == "boom"

(***************************************************************************)
(* Inputs.                                                                 *)
(***************************************************************************)
Letters == <<"a", "b", "c", "d", "e", "f", "g", "h", "i", "j">>

\* The characters the server sends in token frames on stream s.  Every stream
\* uses letters of its own, so that the stream a character came from can be
\* read off any text it ends up in.
Letter(s, k) == Letters[((2 * (s - 1) + (k - 1)) % Len(Letters)) + 1]
\* The content of the next token frame of stream s, given what it has sent:
\* one-character and two-character tokens alternate ("a", "ba", "a", ...), so
\* that consecutive tokens differ and a token can be longer than one tick
\* reveals.  The controller never inspects the characters.
TokenContents(s, sent) ==
    IF Len(sent) % 3 = 0
    THEN { <<Letter(s, 1)>> }
    ELSE { <<Letter(s, 2), Letter(s, 1)>> }

\* payloads of sources frames; <<>> is `event.content || []` for a frame
\* without content
SourcesPayloads == { <<>>, <<"doc1.pdf">> }

\* what the user may have typed when submitting
Questions == { <<>>, <<" ">>, <<"q">>, <<" ", "q", "\n">> }

Whitespace == { " ", "\n", "\t" }

(***************************************************************************)
(* Text helpers (String.prototype.slice / trim / startsWith).              *)
(***************************************************************************)
Take(s, n) == SubSeq(s, 1, IF n < Len(s) THEN n ELSE Len(s))
Drop(s, n) == SubSeq(s, (IF n < Len(s) THEN n ELSE Len(s)) + 1, Len(s))

RECURSIVE TrimStart(_)
TrimStart(s) ==
    IF s # <<>> /\ Head(s) \in Whitespace THEN TrimStart(Tail(s)) ELSE s

RECURSIVE TrimEnd(_)
TrimEnd(s) ==
    IF s # <<>> /\ s[Len(s)] \in Whitespace
    THEN TrimEnd(SubSeq(s, 1, Len(s) - 1))
    ELSE s

Trim(s) == TrimEnd(TrimStart(s))

StartsWith(s, p) == Len(s) >= Len(p) /\ SubSeq(s, 1, Len(p)) = p

(***************************************************************************)
(* State.                                                                  *)
(***************************************************************************)
VARIABLES
    \* App / Chat component
    chats,                \* chat id -> its messages (ChatSession.messages)
    activeChatId,         \* the chatId prop of Chat
    mounted,              \* Chat is mounted
    isLoading,
    requestControllerRef, \* 0 (null) or the stream whose AbortController it holds
    tokenQueueRef,
    streamDoneRef,
    typingTimerRef,       \* 0 (null) or the id of the interval it holds
    intervals,            \* running intervals: [id, chat], chat being the session
                          \* the tick's appendAssistantChunk closure writes to
    \* one entry per handleSubmit that passed its guard
    phase,                \* position of its streamChat call
    aborted,              \* controller.signal.aborted
    chatOf,               \* the session its callbacks' onMessagesChange writes to
    \* history, for stating properties
    received,             \* the contents of the token frames it delivered, concatenated
    errCalls,             \* how many times streamChat has invoked its onError
    lastCb,               \* the callback streamChat invoked last ("" if none)
    late,                 \* streamChat invoked a callback after its signal was aborted
    lastSources,          \* { the payload of the sources frame it delivered last }:
                          \* empty while it has delivered none
    nFrames,              \* frames delivered so far, all streams together
    asstIdx,              \* index of the placeholder assistant message it appended
    lastOp,               \* what the last run of a handler of Chat did: "none",
                          \* "submit_accepted", "submit_empty", "submit_busy",
                          \* "tick_reveal", "tick_idle", "switch", "switch_again"
                          \* (the run before it was the same effect), "unmount"
    \* SSE frame decoder (specification SpecDecoder)
    body,                 \* the whole response body, as characters
    frames,               \* the frames the body was built from
    pos,                  \* characters already delivered by reader.read()
    cut,                  \* the body ends before the delimiter of its last frame
    buffer,
    calls,                \* the callbacks the read loop has invoked, in order
    carried,              \* some chunk ended inside a frame
    readerDone,
    \* FileUpload component (specification SpecUpload)
    status,
    statusMessage,
    uploadCalls,          \* the calls of uploadFile, in order: [file, state], state
                          \* being "pending", "resolved" or "rejected"
    resetTimers,          \* pending setTimeout callbacks of handleUpload
    lastFile,             \* the file given to the last handleUpload (<<>>: none)
    \* App component: the session list (specification SpecApp)
    chatSessions,         \* the ids of the state `chats` of App, in list order
    activeSessionId,      \* the state `activeChatId` of App, 0 standing for ""
    sessionsCreated,      \* createChatSession calls so far: the source of fresh ids
    lastAppOp             \* what the last handler of App did: "none", "create",
                          \* "select", "remove_last", "remove_active", "remove_other"

ctlVars == <<chats, activeChatId, mounted, isLoading, requestControllerRef,
             tokenQueueRef, streamDoneRef, typingTimerRef, intervals>>
streamVars == <<phase, aborted, chatOf, received, errCalls, lastCb, late, lastSources, nFrames, asstIdx>>
decVars == <<body, frames, cut, pos, buffer, calls, carried, readerDone>>
upVars == <<status, statusMessage, uploadCalls, resetTimers, lastFile>>
appVars == <<chatSessions, activeSessionId, sessionsCreated, lastAppOp>>
vars == <<chats, activeChatId, mounted, isLoading, requestControllerRef,
          tokenQueueRef, streamDoneRef, typingTimerRef, intervals,
          phase, aborted, chatOf, received, errCalls, lastCb, late, lastSources, nFrames, asstIdx,
          lastOp,
          body, frames, cut, pos, buffer, calls, carried, readerDone,
          status, statusMessage, uploadCalls, resetTimers, lastFile,
          chatSessions, activeSessionId, sessionsCreated, lastAppOp>>

(***************************************************************************)
(* Chat component: helpers.                                                *)
(***************************************************************************)
\* `last?.role === "assistant"` for the messages of chat c
LastIsAssistant(ch, c) ==
    Len(ch[c]) > 0 /\ ch[c][Len(ch[c])].role = "assistant"

\* appendAssistantChunk, were the chunk added as a message of its own
AppendChunkAsNewMessage(ch, c, chunk) ==
    [ch EXCEPT ![c] = @ \o <<[role |-> "assistant", content |-> chunk, sources |-> <<>>]>>]

\* appendAssistantChunk, through the onMessagesChange (updateActiveChatMessages)
\* of the render in which chat c was active
AppendAssistantChunk(ch, c, chunk) ==
    IF LastIsAssistant(ch, c)
    THEN [ch EXCEPT ![c][Len(ch[c])].content = @ \o chunk]
    ELSE ch

\* the updater of onSources
SetSources(ch, c, sources) ==
    IF LastIsAssistant(ch, c)
    THEN [ch EXCEPT ![c][Len(ch[c])].sources = sources]
    ELSE ch

\* the updater of onError
SetErrorNotice(ch, c, error) ==
    IF LastIsAssistant(ch, c)
    THEN [ch EXCEPT ![c][Len(ch[c])].content = <<ERROR_PREFIX, error>>]
    ELSE ch

\* clearInterval(typingTimerRef.current): the intervals still running afterwards
ClearedIntervals == { i \in intervals : i.id # typingTimerRef }

StopTypingTimer ==
    /\ intervals' = (IF typingTimerRef # 0 THEN ClearedIntervals ELSE intervals)
    /\ typingTimerRef' = 0

\* finalizeIfStreamFinished, were its condition never met
FinalizeNever(done, queue) ==
    UNCHANGED <<intervals, typingTimerRef, isLoading, requestControllerRef>>

\* finalizeIfStreamFinished, called when streamDoneRef holds `done` and
\* tokenQueueRef holds `queue`
FinalizeIfStreamFinished(done, queue) ==
    IF done /\ Len(queue) = 0
    THEN /\ StopTypingTimer
         /\ isLoading' = FALSE
         /\ requestControllerRef' = 0
    ELSE UNCHANGED <<intervals, typingTimerRef, isLoading, requestControllerRef>>

FreshTimerId ==
    CHOOSE n \in 1..(Cardinality(intervals) + 1) :
        /\ \A i \in intervals : i.id # n
        /\ \A m \in 1..(n - 1) : \E i \in intervals : i.id = m

\* startTypewriter, were it to install nothing
StartTypewriterNever(s) ==
    UNCHANGED <<typingTimerRef, intervals>>

\* startTypewriter without its check of the handle
StartTypewriterUnguarded(s) ==
    /\ typingTimerRef' = FreshTimerId
    /\ intervals' = intervals \cup { [id |-> FreshTimerId, chat |-> chatOf[s]] }

\* startTypewriter, called from a callback of stream s
StartTypewriter(s) ==
    IF typingTimerRef # 0
    THEN UNCHANGED <<typingTimerRef, intervals>>
    ELSE /\ typingTimerRef' = FreshTimerId
         /\ intervals' = intervals \cup { [id |-> FreshTimerId, chat |-> chatOf[s]] }

(***************************************************************************)
(* Chat component: the stream callbacks handleSubmit passes to streamChat. *)
(***************************************************************************)
SignalAborted(s) == aborted[s]

\* onToken without its check of the signal
OnTokenUnguarded(s, token) ==
    /\ tokenQueueRef' = tokenQueueRef \o token
    /\ StartTypewriter(s)
    /\ UNCHANGED <<chats, activeChatId, mounted, isLoading,
                   requestControllerRef, streamDoneRef>>

OnToken(s, token) ==
    IF SignalAborted(s)
    THEN UNCHANGED ctlVars
    ELSE /\ tokenQueueRef' = tokenQueueRef \o token
         /\ StartTypewriter(s)
         /\ UNCHANGED <<chats, activeChatId, mounted, isLoading,
                        requestControllerRef, streamDoneRef>>

OnSources(s, sources) ==
    IF SignalAborted(s)
    THEN UNCHANGED ctlVars
    ELSE /\ chats' = SetSources(chats, chatOf[s], sources)
         /\ UNCHANGED <<activeChatId, mounted, isLoading, requestControllerRef,
                        tokenQueueRef, streamDoneRef, typingTimerRef, intervals>>

OnDone(s) ==
    IF SignalAborted(s)
    THEN UNCHANGED ctlVars
    ELSE /\ streamDoneRef' = TRUE
         /\ FinalizeIfStreamFinished(TRUE, tokenQueueRef)
         /\ UNCHANGED <<chats, activeChatId, mounted, tokenQueueRef>>

\* onError without its check of the signal
OnErrorUnguarded(s, error) ==
    /\ StopTypingTimer
    /\ tokenQueueRef' = <<>>
    /\ streamDoneRef' = FALSE
    /\ chats' = SetErrorNotice(chats, chatOf[s], error)
    /\ isLoading' = FALSE
    /\ requestControllerRef' = 0
    /\ UNCHANGED <<activeChatId, mounted>>

OnError(s, error) ==
    IF SignalAborted(s)
    THEN UNCHANGED ctlVars
    ELSE /\ StopTypingTimer
         /\ tokenQueueRef' = <<>>
         /\ streamDoneRef' = FALSE
         /\ chats' = SetErrorNotice(chats, chatOf[s], error)
         /\ isLoading' = FALSE
         /\ requestControllerRef' = 0
         /\ UNCHANGED <<activeChatId, mounted>>

\* the switch on event.type in the read loop
Events(s) ==
    { [cb |-> "onToken", arg |-> t] : t \in TokenContents(s, received[s]) }
    \cup { [cb |-> "onSources", arg |-> src] : src \in SourcesPayloads }
    \cup { [cb |-> "onDone", arg |-> <<>>] }
    \cup { [cb |-> "onError", arg |-> <<ERR_FRAME>>] }

Invoke(s, ev) ==
    /\ CASE ev.cb = "onToken" -> OnToken(s, ev.arg)
         [] ev.cb = "onSources" -> OnSources(s, ev.arg)
         [] ev.cb = "onDone" -> OnDone(s)
         [] ev.cb = "onError" -> OnError(s, ev.arg[1])
    /\ received' = [received EXCEPT ![s] = IF ev.cb = "onToken" THEN @ \o ev.arg ELSE @]
    /\ errCalls' = [errCalls EXCEPT ![s] = IF ev.cb = "onError" THEN @ + 1 ELSE @]
    /\ lastCb' = [lastCb EXCEPT ![s] = ev.cb]
    /\ late' = [late EXCEPT ![s] = @ \/ aborted[s]]
    /\ lastSources' = [lastSources EXCEPT ![s] = IF ev.cb = "onSources" THEN {ev.arg} ELSE @]

(***************************************************************************)
(* Chat component: actions.                                                *)
(***************************************************************************)
NextStream == CHOOSE s \in Streams : phase[s] = "none" /\ \A r \in 1..(s - 1) : phase[r] # "none"

\* handleSubmit from its guard on, up to the await of streamChat
SubmitQuestion(question) ==
    /\ mounted
    /\ IF question = <<>> \/ isLoading
       THEN /\ lastOp' = (IF question = <<>> THEN "submit_empty" ELSE "submit_busy")
            /\ UNCHANGED <<ctlVars, streamVars, decVars, upVars, appVars>>
       ELSE /\ \E s \in Streams : phase[s] = "none"
            /\ LET s == NextStream
                   userMessage == [role |-> "user", content |-> question, sources |-> <<>>]
                   assistantMessage == [role |-> "assistant", content |-> <<>>, sources |-> <<>>]
               IN /\ requestControllerRef' = s
                  /\ tokenQueueRef' = <<>>
                  /\ streamDoneRef' = FALSE
                  /\ StopTypingTimer
                  /\ chats' = [chats EXCEPT ![activeChatId] = @ \o <<userMessage, assistantMessage>>]
                  /\ isLoading' = TRUE
                  /\ phase' = [phase EXCEPT ![s] = "fetch"]
                  /\ chatOf' = [chatOf EXCEPT ![s] = activeChatId]
                  /\ asstIdx' = [asstIdx EXCEPT ![s] = Len(chats[activeChatId]) + 2]
                  /\ lastOp' = "submit_accepted"
                  /\ UNCHANGED <<activeChatId, mounted, aborted, received, errCalls, lastCb, late, lastSources, nFrames>>
                  /\ UNCHANGED decVars
                  /\ UNCHANGED upVars
                  /\ UNCHANGED appVars

\* handleSubmit, were the input not trimmed
HandleSubmitUntrimmed(input) == SubmitQuestion(input)

\* handleSubmit: `const question = input.trim()` and the rest
HandleSubmit(input) == SubmitQuestion(Trim(input))

\* the interval callback, were it to clear its interval when the queue is empty
TickStopsWhenIdle(i) ==
    /\ i \in intervals
    /\ IF Len(tokenQueueRef) = 0
       THEN /\ StopTypingTimer
            /\ UNCHANGED <<chats, tokenQueueRef, isLoading, requestControllerRef>>
       ELSE LET chunk == Take(tokenQueueRef, CHARS_PER_TICK)
                rest == Drop(tokenQueueRef, CHARS_PER_TICK)
            IN /\ tokenQueueRef' = rest
               /\ chats' = AppendAssistantChunk(chats, i.chat, chunk)
               /\ FinalizeIfStreamFinished(streamDoneRef, rest)
    /\ lastOp' = (IF Len(tokenQueueRef) = 0 THEN "tick_idle" ELSE "tick_reveal")
    /\ UNCHANGED <<activeChatId, mounted, streamDoneRef>>
    /\ UNCHANGED streamVars
    /\ UNCHANGED decVars
    /\ UNCHANGED upVars
    /\ UNCHANGED appVars

\* the interval callback installed by startTypewriter
Tick(i) ==
    /\ i \in intervals
    /\ IF Len(tokenQueueRef) = 0
       THEN /\ FinalizeIfStreamFinished(streamDoneRef, tokenQueueRef)
            /\ UNCHANGED <<chats, tokenQueueRef>>
       ELSE LET chunk == Take(tokenQueueRef, CHARS_PER_TICK)
                rest == Drop(tokenQueueRef, CHARS_PER_TICK)
            IN /\ tokenQueueRef' = rest
               /\ chats' = AppendAssistantChunk(chats, i.chat, chunk)
               /\ FinalizeIfStreamFinished(streamDoneRef, rest)
    /\ lastOp' = (IF Len(tokenQueueRef) = 0 THEN "tick_idle" ELSE "tick_reveal")
    /\ UNCHANGED <<activeChatId, mounted, streamDoneRef>>
    /\ UNCHANGED streamVars
    /\ UNCHANGED decVars
    /\ UNCHANGED upVars
    /\ UNCHANGED appVars

\* requestControllerRef.current?.abort()
AbortCurrent ==
    aborted' = [s \in Streams |-> aborted[s] \/ s = requestControllerRef]

\* the effect on [chatId] without its setIsLoading(false)
SwitchChatKeepsLoading(c) ==
    /\ mounted
    /\ c # activeChatId
    /\ activeChatId' = c
    /\ StopTypingTimer
    /\ tokenQueueRef' = <<>>
    /\ streamDoneRef' = FALSE
    /\ AbortCurrent
    /\ requestControllerRef' = 0
    /\ lastOp' = (IF lastOp \in {"switch", "switch_again"} THEN "switch_again" ELSE "switch")
    /\ UNCHANGED <<chats, mounted, isLoading, phase, chatOf, received, errCalls, lastCb, late, lastSources, nFrames, asstIdx>>
    /\ UNCHANGED decVars
    /\ UNCHANGED upVars
    /\ UNCHANGED appVars

\* the chatId prop changes: the effect on [chatId]
SwitchChat(c) ==
    /\ mounted
    /\ c # activeChatId
    /\ activeChatId' = c
    /\ StopTypingTimer
    /\ tokenQueueRef' = <<>>
    /\ streamDoneRef' = FALSE
    /\ AbortCurrent
    /\ requestControllerRef' = 0
    /\ isLoading' = FALSE
    /\ lastOp' = (IF lastOp \in {"switch", "switch_again"} THEN "switch_again" ELSE "switch")
    /\ UNCHANGED <<chats, mounted, phase, chatOf, received, errCalls, lastCb, late, lastSources, nFrames, asstIdx>>
    /\ UNCHANGED decVars
    /\ UNCHANGED upVars
    /\ UNCHANGED appVars

\* the cleanup of the effect on []
Unmount ==
    /\ mounted
    /\ mounted' = FALSE
    /\ StopTypingTimer
    /\ AbortCurrent
    /\ requestControllerRef' = 0
    /\ lastOp' = "unmount"
    /\ UNCHANGED <<chats, activeChatId, isLoading, tokenQueueRef, streamDoneRef,
                   phase, chatOf, received, errCalls, lastCb, late, lastSources, nFrames, asstIdx>>
    /\ UNCHANGED decVars
    /\ UNCHANGED upVars
    /\ UNCHANGED appVars

(***************************************************************************)
(* streamChat, at the level of callback invocations.                       *)
(***************************************************************************)
\* `await fetch(...)` resolves: the status check and the reader check
FetchResolves(s, ok, hasBody) ==
    /\ phase[s] = "fetch"
    /\ IF ~ok
       THEN /\ Invoke(s, [cb |-> "onError", arg |-> <<ERR_SERVER>>])
            /\ phase' = [phase EXCEPT ![s] = "closed"]
       ELSE IF ~hasBody
       THEN /\ Invoke(s, [cb |-> "onError", arg |-> <<ERR_NO_READER>>])
            /\ phase' = [phase EXCEPT ![s] = "closed"]
       ELSE /\ phase' = [phase EXCEPT ![s] = "read"]
            /\ UNCHANGED ctlVars
            /\ UNCHANGED <<received, errCalls, lastCb, late, lastSources>>
    /\ UNCHANGED <<aborted, chatOf, nFrames, asstIdx, lastOp>>
    /\ UNCHANGED decVars
    /\ UNCHANGED upVars
    /\ UNCHANGED appVars

\* one complete valid frame is processed by the loop over `lines`
ReadFrame(s, ev) ==
    /\ phase[s] = "read"
    /\ nFrames < MaxFrames
    /\ ev \in Events(s)
    /\ Invoke(s, ev)
    /\ nFrames' = nFrames + 1
    /\ UNCHANGED <<phase, aborted, chatOf, asstIdx, lastOp>>
    /\ UNCHANGED decVars
    /\ UNCHANGED upVars
    /\ UNCHANGED appVars

\* reader.read() reports done: the loop breaks and streamChat returns
ReadDone(s) ==
    /\ phase[s] = "read"
    /\ phase' = [phase EXCEPT ![s] = "closed"]
    /\ UNCHANGED ctlVars
    /\ UNCHANGED <<aborted, chatOf, received, errCalls, lastCb, late, lastSources, nFrames, asstIdx, lastOp>>
    /\ UNCHANGED decVars
    /\ UNCHANGED upVars
    /\ UNCHANGED appVars

\* fetch or reader.read() rejects: the catch block.  An aborted request
\* rejects with an AbortError; any request can fail with a network error.
Rejects(s, abortError) ==
    /\ phase[s] \in {"fetch", "read"}
    /\ abortError => aborted[s]
    /\ IF abortError
       THEN UNCHANGED ctlVars /\ UNCHANGED <<received, errCalls, lastCb, late, lastSources>>
       ELSE Invoke(s, [cb |-> "onError", arg |-> <<ERR_CONNECTION>>])
    /\ phase' = [phase EXCEPT ![s] = "closed"]
    /\ UNCHANGED <<aborted, chatOf, nFrames, asstIdx, lastOp>>
    /\ UNCHANGED decVars
    /\ UNCHANGED upVars
    /\ UNCHANGED appVars

(***************************************************************************)
(* streamChat, at the level of characters: the SSE frame decoder.          *)
(***************************************************************************)
\* number of frames in a response body
MaxBodyFrames == 2

\* {"type":"token","content":"a"}
JSON_TOKEN_A ==
    <<"{", "\"", "t", "y", "p", "e", "\"", ":", "\"", "t", "o", "k", "e",
      "n", "\"", ",", "\"", "c", "o", "n", "t", "e", "n", "t", "\"", ":",
      "\"", "a", "\"", "}">>

\* {"type":"token","content":"b"}
JSON_TOKEN_B ==
    <<"{", "\"", "t", "y", "p", "e", "\"", ":", "\"", "t", "o", "k", "e",
      "n", "\"", ",", "\"", "c", "o", "n", "t", "e", "n", "t", "\"", ":",
      "\"", "b", "\"", "}">>

\* {"type":"sources","content":["doc1.pdf"]}
JSON_SOURCES ==
    <<"{", "\"", "t", "y", "p", "e", "\"", ":", "\"", "s", "o", "u", "r",
      "c", "e", "s", "\"", ",", "\"", "c", "o", "n", "t", "e", "n", "t",
      "\"", ":", "[", "\"", "d", "o", "c", "1", ".", "p", "d", "f", "\"",
      "]", "}">>

\* {"type":"done"}
JSON_DONE ==
    <<"{", "\"", "t", "y", "p", "e", "\"", ":", "\"", "d", "o", "n", "e",
      "\"", "}">>

\* {"type":"error","content":"boom"}
JSON_ERROR ==
    <<"{", "\"", "t", "y", "p", "e", "\"", ":", "\"", "e", "r", "r", "o",
      "r", "\"", ",", "\"", "c", "o", "n", "t", "e", "n", "t", "\"", ":",
      "\"", "b", "o", "o", "m", "\"", "}">>

\* {"type":"ping"}
JSON_PING ==
    <<"{", "\"", "t", "y", "p", "e", "\"", ":", "\"", "p", "i", "n", "g",
      "\"", "}">>

\* null
JSON_NULL ==
    <<"n", "u", "l", "l">>

\* {"type":
JSON_TRUNCATED ==
    <<"{", "\"", "t", "y", "p", "e", "\"", ":">>

\* data: 
DATA_PREFIX ==
    <<"d", "a", "t", "a", ":", " ">>

\* : hb
COMMENT_LINE ==
    <<":", " ", "h", "b">>

\* \n\n
DELIMITER ==
    <<"\n", "\n">>

\* JSON.parse on the texts above; any other text the decoder can meet here
\* (a truncated object, a fragment of one of them) is not JSON and throws.
JsonTable ==
    { [text |-> JSON_TOKEN_A, value |-> [type |-> "token", content |-> <<"a">>]],
      [text |-> JSON_TOKEN_B, value |-> [type |-> "token", content |-> <<"b">>]],
      [text |-> JSON_SOURCES, value |-> [type |-> "sources", content |-> <<"doc1.pdf">>]],
      [text |-> JSON_DONE, value |-> [type |-> "done", content |-> <<>>]],
      [text |-> JSON_ERROR, value |-> [type |-> "error", content |-> <<"boom">>]],
      [text |-> JSON_PING, value |-> [type |-> "ping", content |-> <<>>]],
      [text |-> JSON_NULL, value |-> [type |-> "TypeError", content |-> <<>>]] }

\* [ok, value]: ok is FALSE when JSON.parse throws.  The value null is
\* written as an object whose type is "TypeError": reading `.type` of null
\* throws inside the same try block.
JsonParse(text) ==
    LET t == TrimStart(TrimEnd(text))
    IN IF \E e \in JsonTable : e.text = t
       THEN [ok |-> TRUE, value |-> (CHOOSE e \in JsonTable : e.text = t).value]
       ELSE [ok |-> FALSE, value |-> [type |-> "SyntaxError", content |-> <<>>]]

\* the frames a server may put on the wire, without their delimiter
FrameKinds ==
    { "token_a", "token_b", "sources", "done_padded", "error",
      "ping", "null", "truncated", "comment" }

FrameText(kind) ==
    CASE kind = "token_a" -> DATA_PREFIX \o JSON_TOKEN_A
      [] kind = "token_b" -> DATA_PREFIX \o JSON_TOKEN_B
      [] kind = "sources" -> DATA_PREFIX \o JSON_SOURCES
      [] kind = "done_padded" -> <<"\n">> \o DATA_PREFIX \o JSON_DONE \o <<" ">>
      [] kind = "error" -> DATA_PREFIX \o JSON_ERROR
      [] kind = "ping" -> DATA_PREFIX \o JSON_PING
      [] kind = "null" -> DATA_PREFIX \o JSON_NULL
      [] kind = "truncated" -> DATA_PREFIX \o JSON_TRUNCATED
      [] kind = "comment" -> COMMENT_LINE

\* the body of a response made of the frames fs, each followed by the
\* delimiter, except the last one when the body is cut short
RECURSIVE BodyOf(_, _)
BodyOf(fs, short) ==
    IF fs = <<>> THEN <<>>
    ELSE IF Len(fs) = 1 /\ short THEN FrameText(fs[1])
    ELSE FrameText(Head(fs)) \o DELIMITER \o BodyOf(Tail(fs), short)

\* String.prototype.indexOf("\n\n"), counted from 1; 0 when there is none
IndexOfDelimiter(s) ==
    LET hits == { i \in 1..(Len(s) - 1) : SubSeq(s, i, i + 1) = DELIMITER }
    IN IF hits = {} THEN 0 ELSE CHOOSE i \in hits : \A j \in hits : i <= j

\* String.prototype.split("\n\n")
RECURSIVE Split(_)
Split(s) ==
    LET i == IndexOfDelimiter(s)
    IN IF i = 0
       THEN <<s>>
       ELSE <<SubSeq(s, 1, i - 1)>> \o Split(SubSeq(s, i + Len(DELIMITER), Len(s)))

\* the switch on event.type
Dispatch(event) ==
    CASE event.type = "token" -> <<[cb |-> "onToken", arg |-> event.content]>>
      [] event.type = "sources" -> <<[cb |-> "onSources", arg |-> event.content]>>
      [] event.type = "done" -> <<[cb |-> "onDone", arg |-> <<>>]>>
      [] event.type = "error" -> <<[cb |-> "onError", arg |-> event.content]>>
      [] OTHER -> <<>>

\* the body of the loop over `lines`: the callbacks one line causes
ProcessLine(line) ==
    LET trimmed == Trim(line)
    IN IF ~StartsWith(trimmed, DATA_PREFIX)
       THEN <<>>
       ELSE LET parsed == JsonParse(Drop(trimmed, 6))
            IN IF parsed.ok THEN Dispatch(parsed.value) ELSE <<>>

\* the loop over `lines`, were a line without effect to end it
RECURSIVE ProcessLinesStopAtInvalid(_)
ProcessLinesStopAtInvalid(lines) ==
    IF lines = <<>> \/ ProcessLine(Head(lines)) = <<>> THEN <<>>
    ELSE ProcessLine(Head(lines)) \o ProcessLinesStopAtInvalid(Tail(lines))

\* the loop over `lines`
RECURSIVE ProcessLines(_)
ProcessLines(lines) ==
    IF lines = <<>> THEN <<>>
    ELSE ProcessLine(Head(lines)) \o ProcessLines(Tail(lines))

\* `lines`, were the last segment not popped
CompleteLinesWithTail(parts) == parts
\* `lines` and `buffer` after lines.pop()
CompleteLines(parts) == SubSeq(parts, 1, Len(parts) - 1)
\* `buffer` were the incomplete segment not kept
RemainderDropped(parts) == <<>>
Remainder(parts) == parts[Len(parts)]

\* one iteration of the read loop: reader.read() delivers the next n characters
ReadChunk(n) ==
    /\ ~readerDone
    /\ n \in 1..(Len(body) - pos)
    /\ LET parts == Split(buffer \o SubSeq(body, pos + 1, pos + n))
       IN /\ buffer' = Remainder(parts)
          /\ calls' = calls \o ProcessLines(CompleteLines(parts))
          /\ carried' = (carried \/ (Remainder(parts) # <<>> /\ pos + n < Len(body)))
    /\ pos' = pos + n
    /\ UNCHANGED <<body, frames, cut, readerDone>>
    /\ UNCHANGED ctlVars
    /\ UNCHANGED streamVars
    /\ UNCHANGED lastOp
    /\ UNCHANGED upVars
    /\ UNCHANGED appVars

\* reader.read() reports done, were the text left in the buffer processed
\* as a last line
ReadEndFlushes ==
    /\ ~readerDone
    /\ pos = Len(body)
    /\ readerDone' = TRUE
    /\ calls' = calls \o ProcessLine(buffer)
    /\ buffer' = <<>>
    /\ UNCHANGED <<body, frames, cut, pos, carried>>
    /\ UNCHANGED ctlVars
    /\ UNCHANGED streamVars
    /\ UNCHANGED lastOp
    /\ UNCHANGED upVars
    /\ UNCHANGED appVars

\* reader.read() reports done: the loop breaks
ReadEnd ==
    /\ ~readerDone
    /\ pos = Len(body)
    /\ readerDone' = TRUE
    /\ UNCHANGED <<body, frames, cut, pos, buffer, calls, carried>>
    /\ UNCHANGED ctlVars
    /\ UNCHANGED streamVars
    /\ UNCHANGED lastOp
    /\ UNCHANGED upVars
    /\ UNCHANGED appVars

(***************************************************************************)
(* FileUpload component: handleUpload and what follows it.                 *)
(***************************************************************************)
\* number of uploadFile calls explored
MaxUploads == 2

\* [".pdf", ".docx", ".doc", ".txt"]
allowedExtensions ==
    { <<".", "p", "d", "f">>, <<".", "d", "o", "c", "x">>,
      <<".", "d", "o", "c">>, <<".", "t", "x", "t">> }

\* `Неподдерживаемый формат: ` and `. Допустимые: PDF, DOCX, DOC, TXT`
\* (FileUpload.tsx:24), as atoms around the characters of ext
UNSUPPORTED_PREFIX == "Nepodderzhivaemyj format: "
UNSUPPORTED_SUFFIX == ". Dopustimye: PDF, DOCX, DOC, TXT"
\* `Загрузка: ` and `...` (FileUpload.tsx:29), around the characters of file.name
UPLOADING_PREFIX == "Zagruzka: "
UPLOADING_SUFFIX == "..."
\* result.message of a successful upload
UPLOAD_MESSAGE == "Fajl zagruzhen"
\* `${error}` for the Error uploadFile throws (client.ts:112) or a failed fetch
UPLOAD_ERROR == "Error: Oshibka zagruzki: 500"

\* the names of the files the user may drop or select
FileNames ==
    { <<"r", "e", "p", "o", "r", "t", ".", "e", "x", "e">>,
      <<"a", ".", "p", "d", "f">>,
      <<"a", ".", "P", "D", "F">>,
      <<"b", ".", "D", "o", "c", "x">>,
      <<"c", ".", "d", "o", "c">>,
      <<"d", ".", "t", "x", "t">>,
      <<"a", ".", "t", "a", "r", ".", "g", "z">>,
      <<"a", ".", "p", "d", "f", ".", "e", "x", "e">>,
      <<"a", ".">>,
      <<"R", "E", "A", "D", "M", "E">>,
      <<"p", "d", "f">>,
      <<"T", "X", "T">> }

\* String.prototype.toLowerCase, on the letters of FileNames
UpperCase == <<"A", "C", "D", "E", "F", "M", "O", "P", "R", "T", "X">>
LowerCase == <<"a", "c", "d", "e", "f", "m", "o", "p", "r", "t", "x">>
ToLowerCase(s) ==
    [i \in 1..Len(s) |->
        IF \E k \in 1..Len(UpperCase) : UpperCase[k] = s[i]
        THEN LowerCase[CHOOSE k \in 1..Len(UpperCase) : UpperCase[k] = s[i]]
        ELSE s[i]]

\* String.prototype.split(".")
RECURSIVE SplitDot(_)
SplitDot(s) ==
    LET hits == { i \in 1..Len(s) : s[i] = "." }
    IN IF hits = {}
       THEN <<s>>
       ELSE LET i == CHOOSE h \in hits : \A j \in hits : h <= j
            IN <<SubSeq(s, 1, i - 1)>> \o SplitDot(SubSeq(s, i + 1, Len(s)))

\* "." + file.name.split(".").pop()?.toLowerCase()
ExtOf(name) ==
    LET parts == SplitDot(name)
    IN <<".">> \o ToLowerCase(parts[Len(parts)])

\* handleUpload, up to the await of uploadFile
HandleUpload(file) ==
    /\ LET ext == ExtOf(file)
       IN IF ext \notin allowedExtensions
          THEN /\ status' = "error"
               /\ statusMessage' = <<UNSUPPORTED_PREFIX>> \o ext \o <<UNSUPPORTED_SUFFIX>>
               /\ UNCHANGED uploadCalls
          ELSE /\ Len(uploadCalls) < MaxUploads
               /\ status' = "uploading"
               /\ statusMessage' = <<UPLOADING_PREFIX>> \o file \o <<UPLOADING_SUFFIX>>
               /\ uploadCalls' = Append(uploadCalls, [file |-> file, state |-> "pending"])
    /\ lastFile' = file
    /\ UNCHANGED resetTimers
    /\ UNCHANGED <<ctlVars, streamVars, lastOp, decVars, appVars>>

\* uploadFile resolves: the rest of the try block
UploadResolves(k) ==
    /\ k \in 1..Len(uploadCalls)
    /\ uploadCalls[k].state = "pending"
    /\ uploadCalls' = [uploadCalls EXCEPT ![k].state = "resolved"]
    /\ status' = "success"
    /\ statusMessage' = <<UPLOAD_MESSAGE>>
    /\ resetTimers' = resetTimers + 1
    /\ UNCHANGED lastFile
    /\ UNCHANGED <<ctlVars, streamVars, lastOp, decVars, appVars>>

\* uploadFile rejects: the catch block
UploadRejects(k) ==
    /\ k \in 1..Len(uploadCalls)
    /\ uploadCalls[k].state = "pending"
    /\ uploadCalls' = [uploadCalls EXCEPT ![k].state = "rejected"]
    /\ status' = "error"
    /\ statusMessage' = <<UPLOAD_ERROR>>
    /\ UNCHANGED <<resetTimers, lastFile>>
    /\ UNCHANGED <<ctlVars, streamVars, lastOp, decVars, appVars>>

\* the callback of setTimeout(..., 3000)
ResetTimerFires ==
    /\ resetTimers > 0
    /\ resetTimers' = resetTimers - 1
    /\ status' = "idle"
    /\ statusMessage' = <<>>
    /\ UNCHANGED <<uploadCalls, lastFile>>
    /\ UNCHANGED <<ctlVars, streamVars, lastOp, decVars, appVars>>

\* the button shown with an error
TryAgain ==
    /\ status = "error"
    /\ status' = "idle"
    /\ statusMessage' = <<>>
    /\ UNCHANGED <<uploadCalls, resetTimers, lastFile>>
    /\ UNCHANGED <<ctlVars, streamVars, lastOp, decVars, appVars>>

(***************************************************************************)
(* App component: the list of chat sessions and the active session id.     *)
(* A session is represented by its id; crypto.randomUUID() is a counter,   *)
(* so that every createChatSession yields an id never seen before.         *)
(***************************************************************************)
\* number of createChatSession calls explored
MaxSessions == 6

\* what localStorage holds under CHAT_STORAGE_KEY: the ids of a stored list,
\* or <<>> for a missing, unparsable or empty one
StoredChats == { <<>>, <<1>>, <<1, 2>>, <<2, 1>> }
\* what it holds under ACTIVE_CHAT_STORAGE_KEY (0: nothing); an id may be
\* that of a session the stored list no longer has
SavedActiveIds == {0, 1, 2}

IdsOf(list) == { list[i] : i \in 1..Len(list) }

\* the id of the session the next createChatSession() returns
CreateChatSession == sessionsCreated + 1

\* prev.filter((c) => c.id !== chatId)
RECURSIVE Filter(_, _)
Filter(list, chatId) ==
    IF list = <<>> THEN <<>>
    ELSE (IF Head(list) = chatId THEN <<>> ELSE <<Head(list)>>)
         \o Filter(Tail(list), chatId)

\* the initializer of the state `chats`
InitialChats(stored, fresh) ==
    IF Len(stored) > 0 THEN stored ELSE <<fresh>>

\* the effect on [activeChatId, chats]: the active id once it has run
ActiveIdEffect(list, active) ==
    IF active = 0 /\ Len(list) > 0 THEN list[1]
    ELSE IF active \notin IdsOf(list) /\ Len(list) > 0 THEN list[1]
    ELSE active

CreateNewChat ==
    /\ sessionsCreated < MaxSessions
    /\ LET next == CreateChatSession
           list == <<next>> \o chatSessions
       IN  /\ sessionsCreated' = next
           /\ chatSessions' = list
           /\ activeSessionId' = ActiveIdEffect(list, next)
    /\ lastAppOp' = "create"
    /\ UNCHANGED <<ctlVars, streamVars, lastOp, decVars, upVars>>

\* onClick={() => setActiveChatId(chat.id)} of a listed session
SelectChat(chatId) ==
    /\ chatId \in IdsOf(chatSessions)
    /\ activeSessionId' = ActiveIdEffect(chatSessions, chatId)
    /\ lastAppOp' = "select"
    /\ UNCHANGED <<chatSessions, sessionsCreated>>
    /\ UNCHANGED <<ctlVars, streamVars, lastOp, decVars, upVars>>

\* removeChat without its `prev.length <= 1` branch
RemoveChatAlwaysFilters(chatId) ==
    /\ chatId \in IdsOf(chatSessions)
    /\ LET filtered == Filter(chatSessions, chatId)
           active == IF activeSessionId = chatId /\ Len(filtered) > 0
                     THEN filtered[1] ELSE activeSessionId
       IN  /\ chatSessions' = filtered
           /\ activeSessionId' = ActiveIdEffect(filtered, active)
           /\ lastAppOp' = IF Len(chatSessions) <= 1 THEN "remove_last"
                           ELSE IF activeSessionId = chatId THEN "remove_active"
                           ELSE "remove_other"
    /\ UNCHANGED sessionsCreated
    /\ UNCHANGED <<ctlVars, streamVars, lastOp, decVars, upVars>>

\* onClick={() => removeChat(chat.id)} of a listed session
RemoveChat(chatId) ==
    /\ chatId \in IdsOf(chatSessions)
    /\ IF Len(chatSessions) <= 1
       THEN /\ sessionsCreated < MaxSessions
            /\ LET fresh == CreateChatSession
               IN  /\ sessionsCreated' = fresh
                   /\ chatSessions' = <<fresh>>
                   /\ activeSessionId' = ActiveIdEffect(<<fresh>>, fresh)
            /\ lastAppOp' = "remove_last"
       ELSE /\ LET filtered == Filter(chatSessions, chatId)
                   active == IF activeSessionId = chatId /\ Len(filtered) > 0
                             THEN filtered[1] ELSE activeSessionId
               IN  /\ chatSessions' = filtered
                   /\ activeSessionId' = ActiveIdEffect(filtered, active)
            /\ sessionsCreated' = sessionsCreated
            /\ lastAppOp' = IF activeSessionId = chatId THEN "remove_active"
                            ELSE "remove_other"
    /\ UNCHANGED <<ctlVars, streamVars, lastOp, decVars, upVars>>

(***************************************************************************)
(* Specification of the controller.                                        *)
(***************************************************************************)
DecoderIdle ==
    /\ body = <<>>
    /\ frames = <<>>
    /\ cut = FALSE
    /\ pos = 0
    /\ buffer = <<>>
    /\ calls = <<>>
    /\ carried = FALSE
    /\ readerDone = FALSE

\* the state after the first render and its effects
ControllerIdle ==
    /\ chats = [c \in Chats |-> <<>>]
    /\ activeChatId = 1
    /\ mounted = TRUE
    /\ isLoading = FALSE
    /\ requestControllerRef = 0
    /\ tokenQueueRef = <<>>
    /\ streamDoneRef = FALSE
    /\ typingTimerRef = 0
    /\ intervals = {}
    /\ phase = [s \in Streams |-> "none"]
    /\ aborted = [s \in Streams |-> FALSE]
    /\ chatOf = [s \in Streams |-> 0]
    /\ received = [s \in Streams |-> <<>>]
    /\ errCalls = [s \in Streams |-> 0]
    /\ lastCb = [s \in Streams |-> ""]
    /\ late = [s \in Streams |-> FALSE]
    /\ lastSources = [s \in Streams |-> {}]
    /\ nFrames = 0
    /\ asstIdx = [s \in Streams |-> 0]
    /\ lastOp = "none"

\* FileUpload after its first render
UploadIdle ==
    /\ status = "idle"
    /\ statusMessage = <<>>
    /\ uploadCalls = <<>>
    /\ resetTimers = 0
    /\ lastFile = <<>>

\* App after its first render with nothing stored: one fresh session, made
\* active by the effect
AppIdle ==
    /\ chatSessions = <<1>>
    /\ activeSessionId = 1
    /\ sessionsCreated = 1
    /\ lastAppOp = "none"

Init ==
    /\ ControllerIdle
    /\ DecoderIdle
    /\ UploadIdle
    /\ AppIdle

Next ==
    \/ \E input \in Questions : HandleSubmit(input)
    \/ \E i \in intervals : Tick(i)
    \/ \E c \in Chats : SwitchChat(c)
    \/ Unmount
    \/ \E s \in Streams, ok \in BOOLEAN, hasBody \in BOOLEAN : FetchResolves(s, ok, hasBody)
    \/ \E s \in Streams : \E ev \in Events(s) : ReadFrame(s, ev)
    \/ \E s \in Streams : ReadDone(s)
    \/ \E s \in Streams, abortError \in BOOLEAN : Rejects(s, abortError)

Spec == Init /\ [][Next]_vars

\* the interval fires for as long as it is installed
FairSpec == Spec /\ WF_vars(\E i \in intervals : Tick(i))

(***************************************************************************)
(* Specification of the decoder: a response body is fixed at the start and *)
(* reader.read() cuts it into chunks at arbitrary places.                  *)
(***************************************************************************)
FrameLists ==
    UNION { [1..n -> FrameKinds] : n \in 0..MaxBodyFrames }

InitDecoder ==
    /\ ControllerIdle
    /\ UploadIdle
    /\ AppIdle
    /\ frames \in FrameLists
    /\ cut \in BOOLEAN
    /\ cut => frames # <<>>
    /\ body = BodyOf(frames, cut)
    /\ pos = 0
    /\ buffer = <<>>
    /\ calls = <<>>
    /\ carried = FALSE
    /\ readerDone = FALSE

NextDecoder ==
    \/ \E n \in 1..(Len(body) - pos) : ReadChunk(n)
    \/ ReadEnd

SpecDecoder == InitDecoder /\ [][NextDecoder]_vars

(***************************************************************************)
(* Specification of the upload component.                                  *)
(***************************************************************************)
NextUpload ==
    \/ \E file \in FileNames : HandleUpload(file)
    \/ \E k \in 1..MaxUploads : UploadResolves(k)
    \/ \E k \in 1..MaxUploads : UploadRejects(k)
    \/ ResetTimerFires
    \/ TryAgain

SpecUpload == Init /\ [][NextUpload]_vars

(***************************************************************************)
(* Specification of the session list: App starts from what localStorage    *)
(* holds, after its first render and the effect on [activeChatId, chats].  *)
(***************************************************************************)
SessionIds == 1..MaxSessions

InitApp ==
    /\ ControllerIdle
    /\ DecoderIdle
    /\ UploadIdle
    /\ \E stored \in StoredChats, saved \in SavedActiveIds :
          /\ sessionsCreated = IF Len(stored) > 0 THEN 2 ELSE 3
          /\ chatSessions = InitialChats(stored, 3)
          /\ activeSessionId = ActiveIdEffect(chatSessions, saved)
    /\ lastAppOp = "none"

NextApp ==
    \/ CreateNewChat
    \/ \E chatId \in SessionIds : SelectChat(chatId)
    \/ \E chatId \in SessionIds : RemoveChat(chatId)

SpecApp == InitApp /\ [][NextApp]_vars

(***************************************************************************)
(* Properties.                                                             *)
(***************************************************************************)
IsPrefix(a, b) == Len(a) <= Len(b) /\ SubSeq(b, 1, Len(a)) = a

Submitted(s) == phase[s] # "none"
\* the content of the assistant message handleSubmit appended for stream s
Content(s) == chats[chatOf[s]][asstIdx[s]].content
IsErrorNotice(text) == Len(text) = 2 /\ text[1] = ERROR_PREFIX
HasErrorNotice(text) == \E k \in 1..Len(text) : text[k] = ERROR_PREFIX
\* the latest submission
Latest(s) == Submitted(s) /\ \A r \in Streams : r > s => ~Submitted(r)
\* the characters of text that were sent on stream s
CharsOf(text, s) == { k \in 1..Len(text) : text[k] \in { Letter(s, 1), Letter(s, 2) } }

\* the callback a frame stands for in the wire protocol: none for a frame that
\* is not valid
FrameEvent(kind) ==
    CASE kind = "token_a" -> <<[cb |-> "onToken", arg |-> <<"a">>]>>
      [] kind = "token_b" -> <<[cb |-> "onToken", arg |-> <<"b">>]>>
      [] kind = "sources" -> <<[cb |-> "onSources", arg |-> <<"doc1.pdf">>]>>
      [] kind = "done_padded" -> <<[cb |-> "onDone", arg |-> <<>>]>>
      [] kind = "error" -> <<[cb |-> "onError", arg |-> <<"boom">>]>>
      [] OTHER -> <<>>

ValidFrame(kind) == FrameEvent(kind) # <<>>

\* the callbacks of the whole body delivered as one chunk
OneShot == ProcessLines(CompleteLines(Split(body)))
\* the frames of the body that are followed by the delimiter
TerminatedFrames == IF cut THEN SubSeq(frames, 1, Len(frames) - 1) ELSE frames
RECURSIVE ExpectedCalls(_)
ExpectedCalls(fs) ==
    IF fs = <<>> THEN <<>> ELSE FrameEvent(Head(fs)) \o ExpectedCalls(Tail(fs))

\* C1: however reader.read() cuts the body into chunks, the callbacks invoked
\* so far are a prefix of, and once the body is consumed are exactly, the
\* callbacks invoked when the same body arrives as one chunk.
C1_ChunkBoundaryIndependence ==
    /\ IsPrefix(calls, OneShot)
    /\ pos = Len(body) => calls = OneShot

\* a body of valid frames, cut inside a frame by some chunk, fully decoded
C1_Witness ==
    /\ readerDone
    /\ carried
    /\ ~cut
    /\ Len(frames) >= 2
    /\ \A k \in 1..Len(frames) : ValidFrame(frames[k])
    /\ Len(calls) = Len(frames)

\* C2: once the body is consumed, the callbacks invoked are those of its valid
\* delimiter-terminated frames, in order: a frame without the prefix, with a
\* payload that is not JSON, or of an unknown type adds no callback and
\* takes none away from the frames after it.
C2_InvalidFramesDropped ==
    pos = Len(body) => calls = ExpectedCalls(TerminatedFrames)

\* an invalid frame followed by a valid one, whose callback was invoked
C2_Witness ==
    /\ readerDone
    /\ ~cut
    /\ Len(frames) = 2
    /\ ~ValidFrame(frames[1])
    /\ ValidFrame(frames[2])
    /\ calls = FrameEvent(frames[2])

\* C3: for the latest submission, while it is neither cancelled nor errored,
\* the content of its assistant message followed by the pending queue is the
\* concatenation of the tokens it has received; and once Done was its last
\* event and loading is cleared, the content alone is that concatenation.
C3_RevealOrderIsArrivalOrder ==
    \A s \in Streams :
        (Latest(s) /\ ~aborted[s] /\ errCalls[s] = 0) =>
            /\ Content(s) \o tokenQueueRef = received[s]
            /\ (lastCb[s] = "onDone" /\ ~isLoading) => Content(s) = received[s]

\* C4: once stream s1 is cancelled, the assistant message of every later
\* submission and the pending queue hold no character that was sent on s1,
\* whatever callbacks of s1 fire afterwards.
C4_NoLeakAcrossCancellation ==
    \A s1, s2 \in Streams :
        (aborted[s1] /\ s1 < s2 /\ Submitted(s2)) =>
            /\ CharsOf(Content(s2), s1) = {}
            /\ CharsOf(tokenQueueRef, s1) = {}

\* stream 1 was cancelled, its last callback (a token) came afterwards, and the
\* message of the next submission shows exactly the tokens of its own stream
C4_Witness ==
    /\ aborted[1]
    /\ late[1]
    /\ lastCb[1] = "onToken"
    /\ Submitted(2)
    /\ Content(2) # <<>>
    /\ Content(2) = received[2]

\* C5: at most one stream whose signal is not aborted is still open (able to
\* deliver events to the controller).
C5_AtMostOneLiveStream ==
    Cardinality({ s \in Streams : phase[s] \in {"fetch", "read"} /\ ~aborted[s] }) <= 1

\* C6: after the error callback of a stream that is not cancelled and whose
\* assistant message is still the last of its session, the content of that
\* message is exactly an error notice (the prefix and one error message).
C6_ErrorNoticeIsExact ==
    \A s \in Streams :
        (Submitted(s) /\ ~aborted[s] /\ errCalls[s] > 0
            /\ asstIdx[s] = Len(chats[chatOf[s]])) =>
            IsErrorNotice(Content(s))

\* C7: whenever loading is false the pending queue is empty.
C7_NotLoadingImpliesQueueEmpty ==
    ~isLoading => tokenQueueRef = <<>>

\* the response of the current request has ended and nothing has signalled
\* completion: no done frame since, no error, no cancellation
EndedWithoutTerminal(s) ==
    /\ phase[s] = "closed"
    /\ requestControllerRef = s
    /\ ~streamDoneRef

\* C8: when the response of the current request ends without a terminal frame,
\* loading is eventually cleared (or the submission cancelled).
C8_CloseIsImplicitCompletion ==
    \A s \in Streams : EndedWithoutTerminal(s) ~> (~isLoading \/ aborted[s])

\* C9: streamChat invokes the error callback of a submission at most once.
C9_ErrorAtMostOnce ==
    \A s \in Streams : errCalls[s] <= 1

\* C10: a step in which a cancelled stream ends (by its abort or otherwise) or
\* reports an error leaves the messages, the loading flag, the queue, the done
\* flag, the request handle and the timer unchanged.
C10_CancellationIsNotAnError ==
    [][\A s \in Streams :
          (aborted[s] /\ (phase'[s] # phase[s] \/ errCalls'[s] # errCalls[s]))
              => UNCHANGED ctlVars]_vars

\* a cancelled stream has reported an error and no message shows a notice
C10_Witness ==
    \E s \in Streams :
        /\ aborted[s]
        /\ errCalls[s] > 0
        /\ phase[s] = "closed"
        /\ \A c \in Chats : \A k \in 1..Len(chats[c]) : ~HasErrorNotice(chats[c][k].content)

\* C11: a handleSubmit whose input is empty after trimming changes nothing:
\* no message, no request, and the queue, done flag, timer, request handle and
\* loading flag are as before.
C11_EmptySubmitHasNoEffect ==
    [][\A input \in Questions :
          (Trim(input) = <<>> /\ HandleSubmit(input)) => UNCHANGED <<ctlVars, streamVars>>]_vars

\* a blank question was submitted while the controller was idle, and nothing
\* was ever requested
C11_Witness ==
    /\ lastOp = "submit_empty"
    /\ ~isLoading
    /\ \A s \in Streams : phase[s] = "none"
    /\ \A c \in Chats : chats[c] = <<>>

\* C12: while loading is set every handleSubmit is rejected and changes
\* nothing; so a request is opened only when the queue of the submission
\* before it is exhausted and every earlier stream has ended or was cancelled.
C12_ResubmissionBlockedUntilIdle ==
    [][/\ \A input \in Questions :
              (isLoading /\ HandleSubmit(input)) => UNCHANGED <<ctlVars, streamVars>>
       /\ \A s \in Streams :
              (phase[s] = "none" /\ phase'[s] = "fetch") =>
                  /\ ~isLoading
                  /\ tokenQueueRef = <<>>
                  /\ \A r \in Streams \ {s} :
                         phase[r] \in {"none", "closed"} \/ aborted[r]]_vars

\* C13: at most one interval is running, and the one that runs is the one
\* typingTimerRef holds.
C13_AtMostOneTimer ==
    /\ Cardinality(intervals) <= 1
    /\ \A i \in intervals : i.id = typingTimerRef

\* the second token of a stream arrived while the interval started by the
\* first was running
C13_Witness ==
    \E s \in Streams :
        /\ ~aborted[s]
        /\ phase[s] = "read"
        /\ nFrames = 2
        /\ Len(received[s]) = 3
        /\ lastCb[s] = "onToken"
        /\ isLoading
        /\ Cardinality(intervals) = 1

\* what the session-switch reset establishes: no timer, no queued text, no
\* completion signal, no request handle, not loading
ResetState ==
    /\ typingTimerRef = 0
    /\ tokenQueueRef = <<>>
    /\ ~streamDoneRef
    /\ requestControllerRef = 0
    /\ ~isLoading

\* C14: every run of the session-switch reset ends in ResetState, and a run
\* that starts in ResetState (a second run in a row, or a run with no request
\* and no timer) changes nothing but the active session: no message, no
\* interval, no stream, no signal.
C14_CancelIsIdempotent ==
    [][\A c \in Chats :
          SwitchChat(c) =>
              /\ ResetState'
              /\ ResetState => UNCHANGED <<chats, mounted, isLoading, requestControllerRef,
                                          tokenQueueRef, streamDoneRef, typingTimerRef,
                                          intervals, streamVars>>]_vars

\* the reset ran twice in a row, the first time cancelling a request that had
\* revealed text, and the controller is in the state the first run left
C14_Witness ==
    /\ lastOp = "switch_again"
    /\ ResetState
    /\ aborted[1]
    /\ Content(1) # <<>>
    /\ intervals = {}

\* the sources field of the assistant message handleSubmit appended for stream s
SourcesOf(s) == chats[chatOf[s]][asstIdx[s]].sources

\* C15: for the latest submission, while it is neither cancelled nor errored,
\* the sources field of its assistant message is the payload of the sources
\* frame its stream delivered last, and is empty while it has delivered none.
C15_LastSourcesWin ==
    \A s \in Streams :
        (Latest(s) /\ ~aborted[s] /\ errCalls[s] = 0) =>
            {SourcesOf(s)} = (IF lastSources[s] = {} THEN {<<>>} ELSE lastSources[s])

\* C15, the step: handling a sources frame of a stream that is not cancelled
\* sets the sources of the last message to the payload and leaves its content,
\* the queue and the timer as they were.
C15_SourcesStep ==
    [][\A s \in Streams : \A src \in SourcesPayloads :
          (~aborted[s] /\ ReadFrame(s, [cb |-> "onSources", arg |-> src])) =>
              LET c == chatOf[s]
                  n == Len(chats[c])
              IN /\ chats'[c][n].sources = src
                 /\ chats'[c][n].content = chats[c][n].content
                 /\ UNCHANGED <<tokenQueueRef, typingTimerRef, intervals, isLoading>>]_vars

\* the name has a dot, and what follows its last dot is, case aside, one of
\* pdf, docx, doc, txt
HasAllowedExtension(name) ==
    \E i \in 1..Len(name) :
        /\ name[i] = "."
        /\ \A j \in (i + 1)..Len(name) : name[j] # "."
        /\ <<".">> \o ToLowerCase(SubSeq(name, i + 1, Len(name))) \in allowedExtensions

\* C16: handleUpload calls uploadFile for a file whose name carries an allowed
\* extension, and for every other file sets the status to error with the
\* unsupported-format notice and calls nothing.
C16_UploadOnlyAllowedExtensions ==
    [][\A file \in FileNames :
          HandleUpload(file) =>
              IF HasAllowedExtension(file)
              THEN uploadCalls' = Append(uploadCalls, [file |-> file, state |-> "pending"])
              ELSE /\ uploadCalls' = uploadCalls
                   /\ status' = "error"
                   /\ statusMessage'[1] = UNSUPPORTED_PREFIX]_vars

\* C17: the session-switch reset aborts the current request, stops the timer,
\* empties the queue, clears loading and changes no message; a frame of a
\* cancelled stream changes nothing in the controller; and from the reset on
\* no step other than an error callback (no tick, no token, sources or done
\* callback) changes the content of the assistant message of a submission it
\* cancelled: what was revealed stays as it was.  (While the component is
\* mounted, a cancelled submission is one a session switch cancelled.)
C17_CancelLeavesNoResidue ==
    [][/\ \A c \in Chats :
              SwitchChat(c) =>
                  /\ ResetState'
                  /\ intervals' = {}
                  /\ requestControllerRef # 0 => aborted'[requestControllerRef]
                  /\ chats' = chats
       /\ \A s \in Streams : \A ev \in Events(s) :
              (aborted[s] /\ ReadFrame(s, ev)) => UNCHANGED ctlVars
       /\ \A s \in Streams :
              (mounted /\ aborted[s] /\ errCalls' = errCalls) => Content(s)' = Content(s)]_vars

Min(a, b) == IF a < b THEN a ELSE b

\* the controller is idle: timer stopped, loading false, no request handle,
\* nothing queued
Idle ==
    /\ typingTimerRef = 0
    /\ ~isLoading
    /\ requestControllerRef = 0
    /\ tokenQueueRef = <<>>

\* the done frame of the current request has been handled
DoneHandled(s) ==
    /\ requestControllerRef = s
    /\ streamDoneRef
    /\ mounted

\* C18: a tick that finds text in the queue moves exactly
\* min(CHARS_PER_TICK, queue length) characters from its front to the end of
\* the last message; and once the done frame of the current request has been
\* handled, the controller reaches Idle after finitely many ticks (unless the
\* component is unmounted first).
C18_DrainsToIdle ==
    /\ [][\A i \in intervals :
              (Tick(i) /\ tokenQueueRef # <<>>) =>
                  LET n == Min(CHARS_PER_TICK, Len(tokenQueueRef))
                      c == i.chat
                      last == Len(chats[c])
                  IN /\ Len(tokenQueueRef') = Len(tokenQueueRef) - n
                     /\ tokenQueueRef = SubSeq(tokenQueueRef, 1, n) \o tokenQueueRef'
                     /\ chats'[c][last].content =
                            chats[c][last].content \o SubSeq(tokenQueueRef, 1, n)]_vars
    /\ \A s \in Streams : DoneHandled(s) ~> (Idle \/ ~mounted)

\* the done frame was handled with text still queued, part of the answer being
\* revealed already: the controller is draining
C18_Witness ==
    \E s \in Streams :
        /\ DoneHandled(s)
        /\ ~aborted[s]
        /\ lastCb[s] = "onDone"
        /\ Len(tokenQueueRef) >= 2
        /\ Content(s) # <<>>
        /\ Content(s) \o tokenQueueRef = received[s]

\* C19: a tick that finds the queue empty changes no message; while the
\* stream has not signalled completion it leaves the timer, the loading flag
\* and the request handle as they are, and once it has, it stops the timer and
\* clears loading.
C19_EmptyTick ==
    [][\A i \in intervals :
          (Tick(i) /\ tokenQueueRef = <<>>) =>
              /\ chats' = chats
              /\ tokenQueueRef' = <<>>
              /\ IF streamDoneRef
                 THEN typingTimerRef' = 0 /\ i \notin intervals' /\ ~isLoading'
                 ELSE UNCHANGED <<typingTimerRef, intervals, isLoading,
                                  requestControllerRef>>]_vars

\* the timer has revealed all the text received so far and then ticked on an
\* empty queue: the stream is still open, the timer runs and loading is set
C19_Witness ==
    \E s \in Streams :
        /\ lastOp = "tick_idle"
        /\ requestControllerRef = s
        /\ ~streamDoneRef
        /\ isLoading
        /\ typingTimerRef # 0
        /\ tokenQueueRef = <<>>
        /\ Content(s) # <<>>
        /\ Content(s) = received[s]

\* C20: in every step and every session, the list of messages either keeps
\* its length or grows by two; it grows exactly in an accepted handleSubmit,
\* by a user message with the trimmed question followed by an assistant message
\* with empty content and empty sources, in the active session; every message
\* but the last is left as it was, and the last changes only if it is an
\* assistant message, and stays one.
C20_SubmitAppendsTwo ==
    [][/\ \A c \in Chats :
              LET old == chats[c]
                  new == chats'[c]
                  n == Len(old)
              IN /\ Len(new) \in {n, n + 2}
                 /\ \A k \in 1..(n - 1) : new[k] = old[k]
                 /\ (n > 0 /\ new[n] # old[n]) =>
                        /\ Len(new) = n
                        /\ old[n].role = "assistant"
                        /\ new[n].role = "assistant"
                 /\ Len(new) = n + 2 =>
                        /\ c = activeChatId
                        /\ \E input \in Questions :
                               /\ HandleSubmit(input)
                               /\ Trim(input) # <<>>
                               /\ new[n + 1] = [role |-> "user", content |-> Trim(input),
                                                sources |-> <<>>]
                        /\ new[n + 2] = [role |-> "assistant", content |-> <<>>,
                                         sources |-> <<>>]
       /\ \A s \in Streams :
              (phase[s] = "none" /\ phase'[s] = "fetch") =>
                  Len(chats'[activeChatId]) = Len(chats[activeChatId]) + 2]_vars

\* two submissions in one session, both answers partly revealed, the second
\* with its sources set
C20_Witness ==
    \E c \in Chats :
        /\ Len(chats[c]) = 4
        /\ chats[c][1].role = "user"
        /\ chats[c][2].content # <<>>
        /\ chats[c][3].content = <<"q">>
        /\ chats[c][4].content # <<>>
        /\ chats[c][4].sources # <<>>

\* the position in the body of the last character of the delimiter that
\* terminates frame k (0 for k = 0)
FrameEnd(k) == Len(BodyOf(SubSeq(frames, 1, k), FALSE))
\* the number of frames whose delimiter has been received in full
NumComplete == Cardinality({ k \in 1..Len(frames) : FrameEnd(k) <= pos })

\* C21: at every point of the read loop, the callbacks invoked are those of
\* the frames whose terminating delimiter has been received in full (none for
\* a frame still waiting for it, one for a frame split over chunks once the
\* chunk completing its delimiter is processed), and the buffer is the text
\* received after the last delimiter.
C21_BufferCarriesAcrossChunks ==
    /\ calls = ExpectedCalls(SubSeq(frames, 1, NumComplete))
    /\ buffer = SubSeq(body, FrameEnd(NumComplete) + 1, pos)

\* one valid frame, all of its text received but only half of its delimiter:
\* the text is in the buffer and no callback has been invoked
C21_Witness ==
    /\ Len(frames) = 1
    /\ ~cut
    /\ ValidFrame(frames[1])
    /\ pos = Len(body) - 1
    /\ carried
    /\ calls = <<>>
    /\ buffer = FrameText(frames[1]) \o <<"\n">>

\* C22: while the component is mounted, text in the pending queue implies
\* that the interval typingTimerRef holds is running.
C22_QueuedTextHasConsumer ==
    (mounted /\ tokenQueueRef # <<>>) =>
        /\ typingTimerRef # 0
        /\ \E i \in intervals : i.id = typingTimerRef

\* the second submission, whose handleSubmit stopped the timer of the first,
\* has text queued and revealed, and a timer running
C22_Witness ==
    /\ mounted
    /\ Submitted(2)
    /\ requestControllerRef = 2
    /\ received[1] # <<>>
    /\ Len(tokenQueueRef) >= 1
    /\ Content(2) # <<>>
    /\ Content(2) \o tokenQueueRef = received[2]
    /\ Cardinality(intervals) = 1

\* C23: when the transport ends, the callbacks invoked are those of the
\* delimiter-terminated frames only: the text left in the buffer, be it a
\* complete done, error or token frame short of its delimiter, causes no
\* callback; and the step in which reader.read() reports done invokes none.
C23_UnterminatedTailDiscarded ==
    /\ [](readerDone => calls = ExpectedCalls(TerminatedFrames))
    /\ [][ReadEnd => calls' = calls]_vars

\* the transport ended after a frame and a well-formed done, error or token
\* frame without delimiter: the latter is still in the buffer and only the
\* former caused a callback
C23_Witness ==
    /\ readerDone
    /\ cut
    /\ Len(frames) = 2
    /\ ValidFrame(frames[1])
    /\ frames[2] \in {"done_padded", "error", "token_a"}
    /\ buffer = FrameText(frames[2])
    /\ ProcessLine(buffer) # <<>>
    /\ calls = FrameEvent(frames[1])

\* C24: while an upload is shown as uploading, the reset callback scheduled
\* by an earlier successful upload changes neither the status nor the message:
\* the status leaves uploading only through the result of the upload shown.
C24_UploadingUntilOwnResult ==
    [][(status = "uploading" /\ ResetTimerFires) =>
          UNCHANGED <<status, statusMessage>>]_vars

\* a handler of App that removed a session has just run
Removed == lastAppOp' \in {"remove_last", "remove_active", "remove_other"}

\* C25: after any sequence of createNewChat and removeChat (and of selections)
\* the session list is not empty and the active id is that of a listed
\* session; removing a session when at most one remains leaves the list with
\* exactly one session, of an id never used before, which is the active one;
\* removing the active session otherwise leaves the other sessions in their
\* order and makes the first of them active.
C25_SessionListNeverEmpty ==
    /\ [](/\ chatSessions # <<>>
          /\ activeSessionId \in IdsOf(chatSessions))
    /\ [][(Removed /\ Len(chatSessions) <= 1) =>
             /\ Len(chatSessions') = 1
             /\ chatSessions'[1] > sessionsCreated
             /\ chatSessions'[1] \notin IdsOf(chatSessions)
             /\ activeSessionId' = chatSessions'[1]]_vars
    /\ [][(Removed /\ Len(chatSessions) > 1 /\ activeSessionId \notin IdsOf(chatSessions')) =>
             /\ chatSessions' = Filter(chatSessions, activeSessionId)
             /\ activeSessionId' = chatSessions'[1]]_vars

\* the only session left was removed, several createChatSession calls after
\* the start: a single session of a new id is listed and active
C25_Witness ==
    /\ lastAppOp = "remove_last"
    /\ sessionsCreated >= 5
    /\ chatSessions = <<sessionsCreated>>
    /\ activeSessionId = sessionsCreated
====
